---- MODULE Spec2Model ----
(***************************************************************************)
(* Laboratory reagent inventory: the Streamlit dashboard                   *)
(* (streamlit_app.py, tables users / reagents / usage_logs) and the Flask  *)
(* application (app.py, tables user / reagent / usage_log).                *)
(*                                                                         *)
(* Conventions                                                             *)
(*  - A text value is a sequence of characters (one-character strings);    *)
(*    " " is whitespace.  Widget options, units and user names, which are  *)
(*    only compared for equality, are one-token sequences or plain strings.*)
(*  - Python None / SQL NULL / pandas NaN, NaT: an optional value is a     *)
(*    sequence of length 0 (absent) or 1 (present).                        *)
(*  - A REAL quantity is counted in hundredths (the step of the smallest   *)
(*    amount the usage widget accepts, min_value=0.01): 1 stands for 0.01. *)
(*  - A date is its day ordinal.                                           *)
(***************************************************************************)
EXTENDS Integers, Sequences, FiniteSets, TLC

VARIABLES
    today,            \* date.today() / datetime.today().date()
    \* ---- streamlit_app.py ----
    users,            \* table users: set of rows
    reagents,         \* table reagents: id -> row
    reagents_seq,     \* AUTOINCREMENT: the largest id ever given out
    usage_logs,       \* table usage_logs: rows in insertion (id) order
    cache,            \* st.cache_data entry of load_reagents(): <<>> or <<df>>
    session_state,    \* st.session_state of every browser session
    pc,               \* where every session's script run stands
    reagents_df,      \* the script run's reagents_df (line 124)
    current_reagents, \* the script run's current_reagents (line 420)
    alerts,           \* the script run's alerts list (lines 127-134)
    shown,            \* the st.error / st.success / st.info last displayed
    \* ---- app.py ----
    user,             \* table user: set of rows
    reagent,          \* table reagent: id -> row
    reagent_seq,      \* the largest reagent id given out
    usage_log,        \* table usage_log: rows in insertion order
    current_user,     \* flask_login's current_user of every client: <<>> or <<user id>>
    loaded,           \* the Reagent object a log_usage request in flight holds
    flask_alerts,     \* the alerts list index() last rendered for a client
    response          \* the response last sent

stvars == <<users, reagents, reagents_seq, usage_logs, cache, session_state, pc,
            reagents_df, current_reagents, alerts, shown>>
flvars == <<user, reagent, reagent_seq, usage_log, current_user, loaded,
            flask_alerts, response>>
vars == <<today, stvars, flvars>>

(***************************************************************************)
(* Bounds of the model.                                                    *)
(***************************************************************************)
NumSessions == 2     \* Streamlit browser sessions
NumClients == 2      \* Flask clients
MaxRows == 2         \* reagents created where usage is logged
CatalogRows == 1     \* reagents created where the catalog is edited
MaxLogs == 2         \* rows of a usage table
MaxQty == 2          \* largest amount typed into a form
MaxDay == 3          \* days of the calendar
MaxImport == 2       \* rows of an uploaded sheet

Sessions == 1..NumSessions
Clients == 1..NumClients
Days == 1..MaxDay

None == <<>>
Some(v) == <<v>>

(***************************************************************************)
(* Text.                                                                   *)
(***************************************************************************)
\* The byte value of a character (SQLite's BINARY collation, ORDER BY name).
Code(ch) ==
    CASE ch = " " -> 32
      [] ch = "H" -> 72
      [] ch = "K" -> 75
      [] ch = "a" -> 97
      [] ch = "n" -> 110
      [] OTHER -> 127

RECURSIVE TextLess(_, _)
TextLess(a, b) ==
    IF b = <<>> THEN FALSE
    ELSE IF a = <<>> THEN TRUE
    ELSE IF Code(Head(a)) # Code(Head(b)) THEN Code(Head(a)) < Code(Head(b))
    ELSE TextLess(Tail(a), Tail(b))

RECURSIVE LStrip(_)
LStrip(s) == IF s # <<>> /\ Head(s) = " " THEN LStrip(Tail(s)) ELSE s

RECURSIVE RStrip(_)
RStrip(s) ==
    IF s # <<>> /\ s[Len(s)] = " " THEN RStrip(SubSeq(s, 1, Len(s) - 1)) ELSE s

\* str.strip()
Strip(s) == RStrip(LStrip(s))

\* Python's `x or None` on a str
OrNone(s) == IF s = <<>> THEN None ELSE Some(s)

\* str(date): ISO text of a date
DateStr(d) == <<"iso", d>>

\* str(x) if x else None, on an optional date
DateText(d) == IF d # None THEN Some(DateStr(d[1])) ELSE None

\* pd.to_datetime(text, errors='coerce').dt.date on one cell
ToDate(t) == IF t = None THEN None ELSE Some(t[1][2])

\* hashlib.sha256(p.encode()).hexdigest()
Sha256(p) == <<"sha256", p>>

UnitOptions == {"g", "mg", "ml", "L", "bottles", "vials", "kg"}
CustomInput == <<"Custom input">>
LocationOptions == {<<"Scrappy-Doo">>, <<"Daphne">>, <<"Tom">>, <<"Jerry">>,
                    <<"Scooby-Doo">>, <<"Velma">>, CustomInput}

(***************************************************************************)
(* streamlit_app.py: the store.                                            *)
(***************************************************************************)
\* init_db(): the two seeded users
SeedUsers ==
    {[username |-> "admin", password_hash |-> Sha256("admin123"), role |-> "admin"],
     [username |-> "user", password_hash |-> Sha256("user123"), role |-> "user"]}

\* One row of INSERT INTO reagents (...) VALUES (...)
Row(name, cas, supplier, location, quantity, unit, exp, threshold) ==
    [name |-> name, cas_number |-> cas, supplier |-> supplier, location |-> location,
     quantity |-> quantity, unit |-> unit, expiration_date |-> exp,
     low_stock_threshold |-> threshold]

\* INSERT INTO reagents: the row gets the next AUTOINCREMENT id
Insert(table, id, row) == [i \in DOMAIN table \cup {id} |-> IF i = id THEN row ELSE table[i]]

\* DELETE FROM reagents with no WHERE clause
DeleteEvery(table, ids) == [i \in {} |-> table[i]]

\* DELETE FROM reagents WHERE id IN ids
Delete(table, ids) == [i \in DOMAIN table \ ids |-> table[i]]

\* A DataFrame row of SELECT * FROM reagents, its expiration_date converted
DfRow(id, r) ==
    [id |-> id, name |-> r.name, cas_number |-> r.cas_number, supplier |-> r.supplier,
     location |-> r.location, quantity |-> r.quantity, unit |-> r.unit,
     expiration_date |-> ToDate(r.expiration_date),
     low_stock_threshold |-> r.low_stock_threshold]

\* ORDER BY name (rows of equal name in id order)
Before(table, i, j) ==
    \/ TextLess(table[i].name, table[j].name)
    \/ table[i].name = table[j].name /\ i < j

RECURSIVE Ordered(_, _)
Ordered(table, ids) ==
    IF ids = {} THEN <<>>
    ELSE LET first == CHOOSE i \in ids : \A j \in ids \ {i} : Before(table, i, j)
         IN  <<DfRow(first, table[first])>> \o Ordered(table, ids \ {first})

\* pd.read_sql_query("SELECT * FROM reagents ORDER BY name")
Query(table) == Ordered(table, DOMAIN table)

\* load_reagents() under @st.cache_data(ttl=300): the value it returns
LoadReagents == IF cache # None THEN cache[1] ELSE Query(reagents)

\* ... and the cache entry it leaves
CacheAfterLoad == IF cache # None THEN cache ELSE Some(Query(reagents))

DfIds(df) == {df[k].id : k \in DOMAIN df}
DfRowOf(df, id) == df[CHOOSE k \in DOMAIN df : df[k].id = id]

(***************************************************************************)
(* Alerts.                                                                 *)
(***************************************************************************)
\* An evaluator that, unlike lines 130-134, flags a reagent expiring today
RowAlertsThroughToday(row, day) ==
    (IF row.quantity <= row.low_stock_threshold
        THEN <<[kind |-> "Low Stock", id |-> row.id, name |-> row.name]>> ELSE <<>>)
    \o
    (IF row.expiration_date # None /\ row.expiration_date[1] <= day
        THEN <<[kind |-> "Expired", id |-> row.id, name |-> row.name]>> ELSE <<>>)

\* The alerts a row contributes, streamlit_app.py lines 130-134
RowAlerts(row, day) ==
    (IF row.quantity <= row.low_stock_threshold
        THEN <<[kind |-> "Low Stock", id |-> row.id, name |-> row.name]>> ELSE <<>>)
    \o
    (IF row.expiration_date # None /\ row.expiration_date[1] < day
        THEN <<[kind |-> "Expired", id |-> row.id, name |-> row.name]>> ELSE <<>>)

RECURSIVE ComputeAlerts(_, _)
ComputeAlerts(df, day) ==
    IF df = <<>> THEN <<>>
    ELSE RowAlerts(Head(df), day) \o ComputeAlerts(Tail(df), day)

(***************************************************************************)
(* streamlit_app.py: authentication (lines 70-105).                        *)
(***************************************************************************)
\* Lines 71-74 (and what the loop of lines 100-102 followed by them leaves): the
\* three authentication keys reset, every other key of the session kept.
Anonymous(state) == [state EXCEPT !.authenticated = FALSE, !.username = None,
                                  !.role = None]

FreshSession == [authenticated |-> FALSE, username |-> None, role |-> None,
                 bulk_last_import |-> None]

\* A lookup by username alone, without line 85's test of the password hash
RolesOfUsername(username, password) == {u.role : u \in {v \in users : v.username = username}}

\* SELECT role FROM users WHERE username=? AND password_hash=?
RolesOf(username, password) ==
    {u.role : u \in {v \in users : v.username = username
                                   /\ v.password_hash = Sha256(password)}}

Login(s, username, password) ==
    /\ pc[s] = "idle"
    /\ ~session_state[s].authenticated
    /\ IF RolesOf(username, password) # {}
          THEN /\ session_state' = [session_state EXCEPT
                     ![s].authenticated = TRUE,
                     ![s].username = Some(username),
                     ![s].role = Some(CHOOSE r \in RolesOf(username, password) : TRUE)]
               /\ shown' = "Welcome"
          ELSE /\ session_state' = session_state
               /\ shown' = "Invalid username or password"
    /\ UNCHANGED <<today, users, reagents, reagents_seq, usage_logs, cache, pc,
                   reagents_df, current_reagents, alerts, flvars>>

Logout(s) ==
    /\ pc[s] = "idle"
    /\ session_state[s].authenticated
    /\ session_state' = [session_state EXCEPT ![s] = Anonymous(@)]
    /\ shown' = "Login Required"
    /\ UNCHANGED <<today, users, reagents, reagents_seq, usage_logs, cache, pc,
                   reagents_df, current_reagents, alerts, flvars>>

(***************************************************************************)
(* streamlit_app.py: one script run of a session.                          *)
(*   idle  -> tabs   lines 111-137: load_reagents(), the alerts            *)
(*   tabs  -> idle   a Catalog or Add Reagent button's handler             *)
(*   tabs  -> usage  line 420: load_reagents() again                       *)
(*   usage -> idle   the Record Usage handler                              *)
(* A handler that ends in st.rerun() ends the run; after a handler that    *)
(* only displays an error the rest of the run renders and changes nothing. *)
(* The variables of a run (reagents_df, current_reagents, alerts) are gone *)
(* when it ends.                                                           *)
(***************************************************************************)
RunStart(s) ==
    /\ pc[s] = "idle"
    /\ session_state[s].authenticated
    /\ reagents_df' = [reagents_df EXCEPT ![s] = LoadReagents]
    /\ cache' = CacheAfterLoad
    /\ alerts' = [alerts EXCEPT ![s] = ComputeAlerts(LoadReagents, today)]
    /\ pc' = [pc EXCEPT ![s] = "tabs"]
    /\ UNCHANGED <<today, users, reagents, reagents_seq, usage_logs, session_state,
                   current_reagents, shown, flvars>>

\* The script run is over: its variables are gone.
EndRun(s) ==
    /\ pc' = [pc EXCEPT ![s] = "idle"]
    /\ reagents_df' = [reagents_df EXCEPT ![s] = <<>>]
    /\ current_reagents' = [current_reagents EXCEPT ![s] = <<>>]
    /\ alerts' = [alerts EXCEPT ![s] = <<>>]

\* The run ends with no button pressed.
RunEnd(s) ==
    /\ pc[s] \in {"tabs", "usage"}
    /\ EndRun(s)
    /\ UNCHANGED <<today, users, reagents, reagents_seq, usage_logs, cache,
                   session_state, shown, flvars>>

\* ttl=300: the cache entry expires
CacheExpire ==
    /\ cache # None
    /\ cache' = None
    /\ UNCHANGED <<today, users, reagents, reagents_seq, usage_logs, session_state, pc,
                   reagents_df, current_reagents, alerts, shown, flvars>>

\* What a handler ending in st.cache_data.clear(); st.rerun() leaves of the run
Rerun(s, message) ==
    /\ cache' = None
    /\ EndRun(s)
    /\ shown' = message

\* What a handler that only displays a message leaves of the run
Display(s, message) ==
    /\ EndRun(s)
    /\ shown' = message

(***************************************************************************)
(* Catalog tab: admin edit and delete (lines 160-231).                     *)
(***************************************************************************)
IsAdmin(s) == session_state[s].role = Some("admin")

\* A stricter test than line 202's, which refuses today's date as well
ExpirationNotAfter(e_exp, today_date) == e_exp # None /\ e_exp[1] <= today_date

\* Line 202: e_exp and e_exp < today_date
ExpirationInPast(e_exp, today_date) == e_exp # None /\ e_exp[1] < today_date

\* UPDATE reagents SET ... WHERE id=?  (no row of that id: nothing is updated)
Update(table, id, row) == [i \in DOMAIN table |-> IF i = id THEN row ELSE table[i]]

\* The "Save Changes" button of the edit expander
SaveChanges(s, edit_id, e_name, e_cas, e_supplier, e_location, e_quantity, e_unit, e_exp, e_threshold) ==
    /\ pc[s] = "tabs"
    /\ IsAdmin(s)
    /\ edit_id \in DfIds(reagents_df[s])
    /\ e_quantity >= 0            \* number_input(min_value=0.0)
    /\ e_threshold >= 0           \* number_input(min_value=0.0)
    /\ e_unit \in UnitOptions     \* selectbox
    /\ IF ExpirationInPast(e_exp, today)
          THEN /\ Display(s, "Cannot save: Expiration date is in the past")
               /\ UNCHANGED <<reagents, cache>>
          ELSE /\ reagents' = Update(reagents, edit_id,
                                     Row(e_name, OrNone(e_cas), OrNone(e_supplier),
                                         e_location, e_quantity, e_unit,
                                         DateText(e_exp), e_threshold))
               /\ Rerun(s, "Reagent updated!")
    /\ UNCHANGED <<today, users, reagents_seq, usage_logs, session_state, flvars>>

\* The "Confirm Delete Selected" button
ConfirmDelete(s, to_delete) ==
    /\ pc[s] = "tabs"
    /\ IsAdmin(s)
    /\ to_delete # {}
    /\ to_delete \subseteq DfIds(reagents_df[s])
    /\ reagents' = Delete(reagents, to_delete)
    /\ Rerun(s, "Deleted reagent(s)!")
    /\ UNCHANGED <<today, users, reagents_seq, usage_logs, session_state, flvars>>

(***************************************************************************)
(* Add Reagent tab: bulk Excel import (lines 247-303).                     *)
(* A sheet row maps the sheet's columns (lower-cased, renamed) to cells; a *)
(* cell is None (an empty cell, which pandas reads as NaN) or Some(text).  *)
(***************************************************************************)
\* row.get(col, '')
Get(row, col) == IF col \in DOMAIN row THEN row[col] ELSE Some(<<>>)

\* str(cell): str(float('nan')) is 'nan'
PyStr(cell) == IF cell = None THEN <<"n", "a", "n">> ELSE cell[1]

\* Lines 271-288: the row the loop inserts for a sheet row; None for a skipped row
ImportedRow(row) ==
    LET name == Strip(PyStr(Get(row, "name")))
        cas == OrNone(Strip(PyStr(Get(row, "cas_number"))))
        supplier == OrNone(Strip(PyStr(Get(row, "supplier"))))
    IN  IF name = <<>> THEN None
        ELSE Some(Row(name, cas, supplier, <<"Default Location">>, 100, "bottles",
                      DateText(None), 100))

\* Lines 268-289: the loop; the state is <<table, sequence, imported>>
RECURSIVE ImportLoop(_, _)
ImportLoop(state, rows) ==
    IF rows = <<>> THEN state
    ELSE LET new == ImportedRow(Head(rows))
         IN  IF new = None THEN ImportLoop(state, Tail(rows))
             ELSE ImportLoop(<<Insert(state[1], state[2] + 1, new[1]), state[2] + 1,
                               state[3] + 1>>, Tail(rows))

\* The "Confirm Import All Valid Rows" button
ConfirmImport(s, rows) ==
    /\ pc[s] = "tabs"
    /\ \A k \in DOMAIN rows : "name" \in DOMAIN rows[k]     \* line 262
    /\ LET done == ImportLoop(<<reagents, reagents_seq, 0>>, rows)
       IN  /\ reagents' = done[1]
           /\ reagents_seq' = done[2]
           /\ IF done[3] > 0
                 THEN /\ session_state' = [session_state EXCEPT
                                             ![s].bulk_last_import = Some(done[3])]
                      /\ Rerun(s, "Imported reagents successfully!")
                 ELSE /\ Display(s, "No valid rows were imported.")
                      /\ UNCHANGED <<session_state, cache>>
    /\ UNCHANGED <<today, users, usage_logs, flvars>>

(***************************************************************************)
(* Add Reagent tab: the single entry form (lines 311-377).                 *)
(***************************************************************************)
\* Line 333
FinalLocation(location_preset, custom_location) ==
    IF location_preset = CustomInput THEN Strip(custom_location) ELSE location_preset

\* Lines 351-358: the errors list is not empty
AddErrors(name, final_location) == Strip(name) = <<>> \/ final_location = <<>>

AddReagent(s, name, cas, supplier, location_preset, custom_location, quantity, unit, exp_date, threshold) ==
    /\ pc[s] = "tabs"
    /\ location_preset \in LocationOptions     \* selectbox
    /\ quantity >= 0                           \* number_input(min_value=0.0)
    /\ unit \in UnitOptions                    \* selectbox
    /\ threshold >= 0                          \* number_input(min_value=0.0)
    /\ IF AddErrors(name, FinalLocation(location_preset, custom_location))
          THEN /\ Display(s, "Name or location is required.")
               /\ UNCHANGED <<reagents, reagents_seq, cache>>
          ELSE /\ reagents' = Insert(reagents, reagents_seq + 1,
                                     Row(Strip(name), OrNone(cas), OrNone(supplier),
                                         FinalLocation(location_preset, custom_location),
                                         quantity, unit, DateText(exp_date), threshold))
               /\ reagents_seq' = reagents_seq + 1
               /\ Rerun(s, "Added successfully!")
    /\ UNCHANGED <<today, users, usage_logs, session_state, flvars>>

(***************************************************************************)
(* Log Usage tab (lines 410-498).                                          *)
(***************************************************************************)
\* Line 420, reached when reagents_df is not empty (line 413)
LoadUsage(s) ==
    /\ pc[s] = "tabs"
    /\ reagents_df[s] # <<>>
    /\ current_reagents' = [current_reagents EXCEPT ![s] = LoadReagents]
    /\ cache' = CacheAfterLoad
    /\ pc' = [pc EXCEPT ![s] = "usage"]
    /\ UNCHANGED <<today, users, reagents, reagents_seq, usage_logs, session_state,
                   reagents_df, alerts, shown, flvars>>

\* Line 423: the ids of current_reagents[current_reagents['quantity'] > 0]
Usable(df) == {df[k].id : k \in {j \in DOMAIN df : df[j].quantity > 0}}

\* Line 452
Available(df, selected_id) == DfRowOf(df, selected_id).quantity

\* Lines 468-476: what number_input(min_value=0.01, max_value=available) can return
QtyWidget(qty_used, available) == 1 <= qty_used /\ qty_used <= available

\* Line 481
MoreThanAvailable(qty_used, available) == qty_used > available

\* UPDATE reagents SET quantity = quantity - ? WHERE id = ?
Deduct(table, id, qty) ==
    [i \in DOMAIN table |->
        IF i = id THEN [table[i] EXCEPT !.quantity = @ - qty] ELSE table[i]]

\* INSERT INTO usage_logs (reagent_id, user, quantity_used, timestamp, notes)
LogRow(reagent_id, who, qty_used, timestamp, notes) ==
    [reagent_id |-> reagent_id, user |-> who, quantity_used |-> qty_used,
     timestamp |-> timestamp, notes |-> notes]

\* The "Record Usage" button
RecordUsage(s, selected_id, qty_used, notes) ==
    /\ pc[s] = "usage"
    /\ selected_id \in Usable(current_reagents[s])
    /\ Available(current_reagents[s], selected_id) > 0          \* line 462
    /\ QtyWidget(qty_used, Available(current_reagents[s], selected_id))
    /\ IF MoreThanAvailable(qty_used, Available(current_reagents[s], selected_id))
          THEN /\ Display(s, "Cannot use more than available quantity!")
               /\ UNCHANGED <<reagents, usage_logs, cache>>
          ELSE /\ reagents' = Deduct(reagents, selected_id, qty_used)
               /\ usage_logs' = Append(usage_logs,
                                       LogRow(selected_id, session_state[s].username[1],
                                              qty_used, today, notes))
               /\ Rerun(s, "Usage logged!")
    /\ UNCHANGED <<today, users, reagents_seq, session_state, flvars>>

(***************************************************************************)
(* app.py: the store and the session (lines 24-64, 87-101).                *)
(***************************************************************************)
\* create_tables(): the two seeded users
FlaskSeedUsers ==
    {[id |-> 1, username |-> "admin", password |-> "admin123", role |-> "admin"],
     [id |-> 2, username |-> "user", password |-> "user123", role |-> "user"]}

\* User.query.filter_by(username=...).first() with the password test of line 91
Matching(username, password) ==
    {u \in user : u.username = username /\ u.password = password}

\* @login_required lets the request through
LoggedIn(c) == current_user[c] # None

Respond(c, answer) == response' = answer

\* POST /login
FlaskLogin(c, username, password) ==
    /\ loaded[c] = None
    /\ IF Matching(username, password) # {}
          THEN /\ current_user' = [current_user EXCEPT ![c] =
                      Some((CHOOSE u \in Matching(username, password) : TRUE).id)]
               /\ Respond(c, "redirect index")
          ELSE /\ current_user' = current_user
               /\ Respond(c, "Invalid credentials")
    /\ UNCHANGED <<today, stvars, user, reagent, reagent_seq, usage_log, loaded,
                   flask_alerts>>

\* GET /logout
FlaskLogout(c) ==
    /\ loaded[c] = None
    /\ LoggedIn(c)
    /\ current_user' = [current_user EXCEPT ![c] = None]
    /\ Respond(c, "redirect login")
    /\ UNCHANGED <<today, stvars, user, reagent, reagent_seq, usage_log, loaded,
                   flask_alerts>>

(***************************************************************************)
(* app.py: index() and its alerts (lines 67-85).                           *)
(***************************************************************************)
\* Reagent.query.all(): the rows in primary key order
RECURSIVE AllRows(_, _)
AllRows(table, ids) ==
    IF ids = {} THEN <<>>
    ELSE LET first == CHOOSE i \in ids : \A j \in ids : i <= j
         IN  <<[table[first] EXCEPT !.id = first]>> \o AllRows(table, ids \ {first})

\* The alerts a row contributes, lines 80-83
FlaskRowAlerts(r, day) ==
    (IF r.quantity <= r.low_stock_threshold
        THEN <<[kind |-> "Low stock", id |-> r.id, name |-> r.name]>> ELSE <<>>)
    \o
    (IF r.expiration_date # None /\ r.expiration_date[1] < day
        THEN <<[kind |-> "Expired", id |-> r.id, name |-> r.name]>> ELSE <<>>)

RECURSIVE FlaskComputeAlerts(_, _)
FlaskComputeAlerts(rows, day) ==
    IF rows = <<>> THEN <<>>
    ELSE FlaskRowAlerts(Head(rows), day) \o FlaskComputeAlerts(Tail(rows), day)

\* GET /
FlaskIndex(c) ==
    /\ loaded[c] = None
    /\ IF LoggedIn(c)
          THEN /\ flask_alerts' = [flask_alerts EXCEPT ![c] =
                      [rows |-> AllRows(reagent, DOMAIN reagent),
                       alerts |-> FlaskComputeAlerts(AllRows(reagent, DOMAIN reagent),
                                                     today)]]
               /\ Respond(c, "index.html")
          ELSE /\ flask_alerts' = flask_alerts
               /\ Respond(c, "redirect login")
    /\ UNCHANGED <<today, stvars, user, reagent, reagent_seq, usage_log, current_user,
                   loaded>>

(***************************************************************************)
(* app.py: add_reagent() (lines 103-131).  The form's numbers arrive as    *)
(* text that float() parses; the model hands over the parsed number.       *)
(***************************************************************************)
\* Lines 107-116 and 126: the Reagent the form makes
FlaskRow(id, name, cas, supplier, location, quantity, unit, exp, threshold) ==
    [id |-> id, name |-> name, cas_number |-> cas, supplier |-> supplier,
     location |-> location, quantity |-> quantity, unit |-> unit,
     expiration_date |-> exp, low_stock_threshold |-> threshold,
     qr_code |-> <<"qr_", id, ".png">>]

\* POST /add
FlaskAddReagent(c, name, cas, supplier, location, quantity, unit, exp, threshold) ==
    /\ loaded[c] = None
    /\ IF LoggedIn(c)
          THEN /\ reagent' = Insert(reagent, reagent_seq + 1,
                                    FlaskRow(reagent_seq + 1, name, cas, supplier,
                                             location, quantity, unit, exp, threshold))
               /\ reagent_seq' = reagent_seq + 1
               /\ Respond(c, "Reagent added!")
          ELSE /\ UNCHANGED <<reagent, reagent_seq>>
               /\ Respond(c, "redirect login")
    /\ UNCHANGED <<today, stvars, user, usage_log, current_user, loaded, flask_alerts>>

(***************************************************************************)
(* app.py: log_usage() (lines 158-168).  The request reads the Reagent     *)
(* (line 161), computes the new quantity from what it read (line 163) and  *)
(* writes it at the commit (line 166); requests of other clients run in    *)
(* between.                                                                *)
(***************************************************************************)
\* Line 161: Reagent.query.get_or_404(id)
FlaskLogUsageRead(c, id) ==
    /\ loaded[c] = None
    /\ IF ~LoggedIn(c)
          THEN /\ loaded' = loaded
               /\ Respond(c, "redirect login")
          ELSE IF id \notin DOMAIN reagent
          THEN /\ loaded' = loaded
               /\ Respond(c, "404")
          ELSE /\ loaded' = [loaded EXCEPT ![c] =
                      Some([id |-> id, quantity |-> reagent[id].quantity])]
               /\ response' = response
    /\ UNCHANGED <<today, stvars, user, reagent, reagent_seq, usage_log, current_user,
                   flask_alerts>>

\* Line 163: reagent.quantity -= qty, on the object the request loaded
NewQuantity(held, qty) == held.quantity - qty

\* Line 164
FlaskLogRow(reagent_id, user_id, qty, timestamp, notes) ==
    [reagent_id |-> reagent_id, user_id |-> user_id, quantity_used |-> qty,
     timestamp |-> timestamp, notes |-> notes]

\* Lines 162-168: the commit writes UPDATE reagent SET quantity=<new> and the log row
FlaskLogUsageCommit(c, qty, notes) ==
    /\ loaded[c] # None
    /\ reagent' = [reagent EXCEPT ![loaded[c][1].id].quantity =
                      NewQuantity(loaded[c][1], qty)]
    /\ usage_log' = Append(usage_log,
                           FlaskLogRow(loaded[c][1].id, current_user[c][1], qty, today,
                                       notes))
    /\ loaded' = [loaded EXCEPT ![c] = None]
    /\ Respond(c, "Usage logged!")
    /\ UNCHANGED <<today, stvars, user, reagent_seq, current_user, flask_alerts>>

(***************************************************************************)
(* The state after construction: init_db() / create_tables() have run, no  *)
(* browser session or client has logged in.                                *)
(***************************************************************************)
StreamlitInit ==
    /\ users = SeedUsers
    /\ reagents = <<>>
    /\ reagents_seq = 0
    /\ usage_logs = <<>>
    /\ cache = None
    /\ session_state = [s \in Sessions |-> FreshSession]
    /\ pc = [s \in Sessions |-> "idle"]
    /\ reagents_df = [s \in Sessions |-> <<>>]
    /\ current_reagents = [s \in Sessions |-> <<>>]
    /\ alerts = [s \in Sessions |-> <<>>]
    /\ shown = "Login Required"

FlaskInit ==
    /\ user = FlaskSeedUsers
    /\ reagent = <<>>
    /\ reagent_seq = 0
    /\ usage_log = <<>>
    /\ current_user = [c \in Clients |-> None]
    /\ loaded = [c \in Clients |-> None]
    /\ flask_alerts = [c \in Clients |-> [rows |-> <<>>, alerts |-> <<>>]]
    /\ response = "login.html"

Init == today \in Days /\ StreamlitInit /\ FlaskInit

(***************************************************************************)
(* The inputs of the specifications.                                       *)
(***************************************************************************)
Credentials == {<<"admin", "admin123">>, <<"user", "user123">>, <<"admin", "wrong">>}
Amounts == 0..MaxQty
AnyAmounts == (0 - 1)..MaxQty
Dates == {None} \cup {Some(d) : d \in Days}
Name1 == <<"K">>
Shelf == <<"Daphne">>

(***************************************************************************)
(* SpecUsage: the dashboard's usage logging, several sessions at once.     *)
(***************************************************************************)
UsageNext ==
    \/ CacheExpire
    \/ \E s \in Sessions :
          \/ Login(s, "user", "user123")
          \/ RunStart(s)
          \/ RunEnd(s)
          \/ LoadUsage(s)
          \/ \E q \in Amounts :
                /\ reagents_seq < MaxRows
                /\ AddReagent(s, Name1, <<>>, <<>>, Shelf, <<>>, q, "g", None, 1)
          \/ \E id \in 1..MaxRows, q \in AnyAmounts :
                /\ Len(usage_logs) < MaxLogs
                /\ RecordUsage(s, id, q, <<>>)

SpecUsage == Init /\ [][UsageNext]_vars

(***************************************************************************)
(* SpecFlask, SpecFlaskAny: the Flask application's usage logging, several *)
(* clients.                                                                *)
(***************************************************************************)
FlaskNextWith(amounts) ==
    \E c \in Clients :
        \/ \E password \in {"user123", "wrong"} : FlaskLogin(c, "user", password)
        \/ FlaskLogout(c)
        \/ \E q \in Amounts :
              /\ reagent_seq < MaxRows
              /\ FlaskAddReagent(c, Name1, <<>>, <<>>, Shelf, q, "g", None, 1)
        \/ \E id \in 1..MaxRows : FlaskLogUsageRead(c, id)
        \/ \E q \in amounts :
              /\ Len(usage_log) < MaxLogs
              /\ FlaskLogUsageCommit(c, q, <<>>)

\* Every request carries a positive amount.
SpecFlask == Init /\ [][FlaskNextWith(1..MaxQty)]_vars

\* quantity_used is whatever number the form carries.
SpecFlaskAny == Init /\ [][FlaskNextWith(AnyAmounts)]_vars

(***************************************************************************)
(* The specifications below run one session and one client.  The two       *)
(* applications keep separate tables (reagents / reagent), sessions and    *)
(* caches, and no action of one reads or writes a variable of the other: a *)
(* behaviour of both is an interleaving of a behaviour of each.  Each      *)
(* behaviour of these specifications therefore runs one of the two, the    *)
(* other staying as constructed (FlaskInit, StreamlitInit).                *)
(***************************************************************************)
OneSession == {1}
OneClient == {1}

(***************************************************************************)
(* SpecCreate: the two add forms, with every kind of bad field.            *)
(***************************************************************************)
FormNames == {<<>>, <<" ">>, Name1}
FormLocations == {<<Shelf, <<>>>>, <<CustomInput, <<>>>>, <<CustomInput, <<" ">>>>,
                  <<CustomInput, <<"B">>>>}
FormUnits == {"g", "xx"}

CreateNext ==
    \/ \E s \in OneSession :
          \/ \E cred \in Credentials : FlaskInit /\ Login(s, cred[1], cred[2])
          \/ FlaskInit /\ RunStart(s)
          \/ FlaskInit /\ RunEnd(s)
          \/ \E name \in FormNames, loc \in FormLocations, q \in AnyAmounts,
                unit \in FormUnits :
                /\ FlaskInit
                /\ reagents_seq < CatalogRows
                /\ AddReagent(s, name, <<>>, <<>>, loc[1], loc[2], q, unit, None, 1)
    \/ \E c \in OneClient :
          \/ \E cred \in Credentials : StreamlitInit /\ FlaskLogin(c, cred[1], cred[2])
          \/ \E name \in FormNames, loc \in FormLocations, q \in AnyAmounts,
                unit \in FormUnits :
                /\ StreamlitInit
                /\ reagent_seq < CatalogRows
                /\ FlaskAddReagent(c, name, <<>>, <<>>, loc[2], q, unit, None, 1)

SpecCreate == Init /\ [][CreateNext]_vars

(***************************************************************************)
(* SpecCatalog: creating and editing reagents of every stock level and     *)
(* expiration date, and the alerts computed from them.                     *)
(***************************************************************************)
FlaskThresholds == {0 - 1, 1}

\* The administrator opens the edit form of a reagent, which shows the
\* reagent's fields (lines 186-198), changes the expiration date and saves.
EditExpiration(s, id, exp) ==
    /\ id \in DfIds(reagents_df[s])
    /\ LET shows == DfRowOf(reagents_df[s], id)
       IN  SaveChanges(s, id, shows.name, <<>>, <<>>, shows.location, shows.quantity,
                       shows.unit, exp, shows.low_stock_threshold)

CatalogNext ==
    \/ FlaskInit /\ CacheExpire
    \/ \E s \in OneSession :
          \/ \E cred \in Credentials : FlaskInit /\ Login(s, cred[1], cred[2])
          \/ FlaskInit /\ Logout(s)
          \/ FlaskInit /\ RunStart(s)
          \/ FlaskInit /\ RunEnd(s)
          \/ \E q \in Amounts, exp \in Dates :
                /\ FlaskInit
                /\ reagents_seq < CatalogRows
                /\ AddReagent(s, Name1, <<>>, <<>>, Shelf, <<>>, q, "g", exp, 1)
          \/ \E id \in 1..CatalogRows, exp \in Dates :
                /\ FlaskInit
                /\ EditExpiration(s, id, exp)
    \/ \E c \in OneClient :
          \/ \E cred \in Credentials : StreamlitInit /\ FlaskLogin(c, cred[1], cred[2])
          \/ StreamlitInit /\ FlaskLogout(c)
          \/ StreamlitInit /\ FlaskIndex(c)
          \/ \E q \in Amounts, exp \in Dates, threshold \in FlaskThresholds :
                /\ StreamlitInit
                /\ reagent_seq < CatalogRows
                /\ FlaskAddReagent(c, Name1, <<>>, <<>>, Shelf, q, "g", exp, threshold)

SpecCatalog == Init /\ [][CatalogNext]_vars

(***************************************************************************)
(* SpecImport: the bulk import of uploaded sheets.                         *)
(***************************************************************************)
Cells == {None, Some(<<" ">>), Some(<<" ", "K">>)}
SheetColumns == {{"name"}, {"name", "cas_number"}, {"name", "cas_number", "supplier"}}
SheetRows(columns) == [columns -> Cells]
Sheets ==
    UNION {UNION {[1..n -> SheetRows(columns)] : n \in 1..MaxImport} :
           columns \in SheetColumns}

ImportNext ==
    \E s \in OneSession :
        \/ Login(s, "user", "user123")
        \/ RunStart(s)
        \/ RunEnd(s)
        \/ \E rows \in Sheets :
              /\ reagents_seq + Len(rows) <= MaxImport
              /\ ConfirmImport(s, rows)

SpecImport == Init /\ [][ImportNext]_vars

(***************************************************************************)
(* Usage logging: the claims.                                              *)
(***************************************************************************)
\* The reagent a log_usage request in flight is about
Held(c) == loaded[c][1].id

\* C1: in every reachable state every reagent's quantity, in either
\* application's table, is at least zero: no usage event drives it below.
C1_QuantityNeverNegative ==
    /\ \A id \in DOMAIN reagent : reagent[id].quantity >= 0
    /\ \A id \in DOMAIN reagents : reagents[id].quantity >= 0

\* C2: a usage of more than the reagent's current quantity fails: the step
\* leaves the quantity unchanged and appends no usage-log row.
C2_OverdrawFails ==
    [][/\ \A c \in Clients, q \in AnyAmounts :
             (FlaskLogUsageCommit(c, q, <<>>) /\ q > reagent[Held(c)].quantity)
                 => UNCHANGED <<reagent, usage_log>>
       /\ \A s \in Sessions, id \in 1..MaxRows, q \in AnyAmounts :
             (RecordUsage(s, id, q, <<>>) /\ id \in DOMAIN reagents
                                         /\ q > reagents[id].quantity)
                 => UNCHANGED <<reagents, usage_logs>>]_vars

\* C3: a usage of q, 0 < q <= Q, of a reagent whose quantity is Q sets the
\* quantity to exactly Q - q, appends exactly one usage-log row (that reagent,
\* the acting user, q) and changes no other reagent and no earlier row.
C3_ExactDeduction ==
    [][/\ \A c \in Clients, q \in AnyAmounts :
             (FlaskLogUsageCommit(c, q, <<>>) /\ 0 < q
                                             /\ q <= reagent[Held(c)].quantity)
                 => /\ reagent' = [reagent EXCEPT ![Held(c)].quantity = @ - q]
                    /\ usage_log' = Append(usage_log,
                            FlaskLogRow(Held(c), current_user[c][1], q, today, <<>>))
       /\ \A s \in Sessions, id \in 1..MaxRows, q \in AnyAmounts :
             (RecordUsage(s, id, q, <<>>) /\ id \in DOMAIN reagents /\ 0 < q
                                         /\ q <= reagents[id].quantity)
                 => /\ reagents' = [reagents EXCEPT ![id].quantity = @ - q]
                    /\ usage_logs' = Append(usage_logs,
                            LogRow(id, session_state[s].username[1], q, today, <<>>))
      ]_vars

\* C4: when sessions log usage of one reagent at once, the availability check
\* and the deduction are one atomic step: every deduction is of an amount that
\* the reagent's quantity at that moment covers, so no balance turns negative.
C4_CheckAndDeductAtomic ==
    [][\A s \in Sessions, id \in 1..MaxRows, q \in AnyAmounts :
          (RecordUsage(s, id, q, <<>>) /\ id \in DOMAIN reagents
                                      /\ usage_logs' # usage_logs)
              => /\ q <= reagents[id].quantity
                 /\ reagents'[id].quantity >= 0]_vars

\* C5: a usage of zero or of a negative amount is rejected: the step leaves
\* the quantity unchanged and appends no usage-log row.
C5_NonPositiveUsageRejected ==
    [][/\ \A c \in Clients, q \in AnyAmounts :
             (FlaskLogUsageCommit(c, q, <<>>) /\ q <= 0)
                 => UNCHANGED <<reagent, usage_log>>
       /\ \A s \in Sessions, id \in 1..MaxRows, q \in AnyAmounts :
             (RecordUsage(s, id, q, <<>>) /\ q <= 0)
                 => UNCHANGED <<reagents, usage_logs>>]_vars

(***************************************************************************)
(* Creating and editing reagents: the claims.                              *)
(***************************************************************************)
\* C6: a single-entry add, in either application, whose name is empty, whose
\* location is empty, whose quantity is negative or whose unit is not one of
\* the recognized units adds no reagent row.
C6_CreateValidates ==
    [][\A name \in FormNames, loc \in FormLocations, q \in AnyAmounts,
          unit \in FormUnits :
          /\ \A s \in Sessions :
                (/\ AddReagent(s, name, <<>>, <<>>, loc[1], loc[2], q, unit, None, 1)
                 /\ \/ name = <<>>
                    \/ FinalLocation(loc[1], loc[2]) = <<>>
                    \/ q < 0
                    \/ unit \notin UnitOptions)
                    => reagents' = reagents
          /\ \A c \in Clients :
                (/\ FlaskAddReagent(c, name, <<>>, <<>>, loc[2], q, unit, None, 1)
                 /\ \/ name = <<>>
                    \/ loc[2] = <<>>
                    \/ q < 0
                    \/ unit \notin UnitOptions)
                    => reagent' = reagent]_vars

\* C7: an admin edit whose expiration date is before today is rejected and
\* leaves the reagents table as it was; an edit whose expiration date is today,
\* later or absent is saved; an add with an expiration date before today
\* creates the row with that date.
C7_EditRejectsPastExpiration ==
    [][\A s \in Sessions, exp \in Dates :
          /\ \A id \in 1..CatalogRows :
                EditExpiration(s, id, exp)
                    => IF exp # None /\ exp[1] < today
                          THEN /\ reagents' = reagents
                               /\ shown' = "Cannot save: Expiration date is in the past"
                          ELSE /\ shown' = "Reagent updated!"
                               /\ id \in DOMAIN reagents =>
                                     reagents'[id].expiration_date = DateText(exp)
          /\ \A q \in Amounts :
                (/\ AddReagent(s, Name1, <<>>, <<>>, Shelf, <<>>, q, "g", exp, 1)
                 /\ exp # None /\ exp[1] < today)
                   => /\ DOMAIN reagents' = DOMAIN reagents \cup {reagents_seq + 1}
                      /\ reagents'[reagents_seq + 1].expiration_date = DateText(exp)
      ]_vars

\* C7 happens: a reagent created with an expiration date before today is in
\* the table and an edit of it has just been refused.
C7_Witness ==
    /\ shown = "Cannot save: Expiration date is in the past"
    /\ \E id \in DOMAIN reagents :
          /\ reagents[id].expiration_date # None
          /\ ToDate(reagents[id].expiration_date)[1] < today

(***************************************************************************)
(* Alerts: the claims.                                                     *)
(***************************************************************************)
\* How many alerts of a kind a list holds for a reagent
Count(list, kind, id) ==
    Cardinality({k \in DOMAIN list : list[k].kind = kind /\ list[k].id = id})

\* C8: the alerts computed from a snapshot hold exactly one low-stock alert for
\* every reagent whose quantity is at most its threshold and none for any
\* other; a reagent whose quantity is zero is always flagged.
C8_LowStockAlert ==
    /\ \A s \in Sessions : \A k \in DOMAIN reagents_df[s] :
          LET row == reagents_df[s][k]
          IN  /\ Count(alerts[s], "Low Stock", row.id) =
                    IF row.quantity <= row.low_stock_threshold THEN 1 ELSE 0
              /\ row.quantity = 0 => Count(alerts[s], "Low Stock", row.id) = 1
    /\ \A c \in Clients : \A k \in DOMAIN flask_alerts[c].rows :
          LET r == flask_alerts[c].rows[k]
          IN  /\ Count(flask_alerts[c].alerts, "Low stock", r.id) =
                    IF r.quantity <= r.low_stock_threshold THEN 1 ELSE 0
              /\ r.quantity = 0 => Count(flask_alerts[c].alerts, "Low stock", r.id) = 1

\* C9: the alerts computed from a snapshot hold exactly one expired alert for
\* every reagent whose expiration date is set and before today, and none for
\* a reagent that expires today or later or has no expiration date; a reagent
\* that is low on stock and expired has both alerts.
C9_ExpiredAlert ==
    /\ \A s \in Sessions : \A k \in DOMAIN reagents_df[s] :
          LET row == reagents_df[s][k]
              expired == row.expiration_date # None /\ row.expiration_date[1] < today
          IN  /\ Count(alerts[s], "Expired", row.id) = IF expired THEN 1 ELSE 0
              /\ (expired /\ row.quantity <= row.low_stock_threshold)
                    => Count(alerts[s], "Low Stock", row.id) = 1
    /\ \A c \in Clients : \A k \in DOMAIN flask_alerts[c].rows :
          LET r == flask_alerts[c].rows[k]
              expired == r.expiration_date # None /\ r.expiration_date[1] < today
          IN  /\ Count(flask_alerts[c].alerts, "Expired", r.id) =
                    IF expired THEN 1 ELSE 0
              /\ (expired /\ r.quantity <= r.low_stock_threshold)
                    => Count(flask_alerts[c].alerts, "Low stock", r.id) = 1

\* C9 happens: a snapshot holds a reagent that is low on stock and expired and
\* the alerts list has both alerts for it.
C9_Witness ==
    \E s \in Sessions : \E k \in DOMAIN reagents_df[s] :
        LET row == reagents_df[s][k]
        IN  /\ row.expiration_date # None /\ row.expiration_date[1] < today
            /\ row.quantity <= row.low_stock_threshold
            /\ Count(alerts[s], "Expired", row.id) = 1
            /\ Count(alerts[s], "Low Stock", row.id) = 1

(***************************************************************************)
(* Bulk import: the claim.                                                 *)
(***************************************************************************)
\* The text a sheet cell carries: none when the column or the cell is missing
\* or the cell is blank after trimming
CellText(row, col) ==
    IF col \in DOMAIN row /\ row[col] # None /\ Strip(row[col][1]) # <<>>
       THEN Some(Strip(row[col][1]))
       ELSE None

\* The sheet rows whose name is not blank
Named(rows) == {k \in DOMAIN rows : CellText(rows[k], "name") # None}

\* C10: an import of a sheet in which M rows have a name that is not blank
\* (a missing or empty cell is blank) adds exactly M reagents, in sheet order,
\* and reports M; each has the row's trimmed name, the default location,
\* quantity 1.0, unit "bottles", no expiration date and threshold 1.0, and has
\* no cas_number / supplier where the sheet has no such cell.
C10_BulkImport ==
    [][\A s \in Sessions, rows \in Sheets :
          ConfirmImport(s, rows) =>
              /\ DOMAIN reagents' =
                    DOMAIN reagents \cup
                        (reagents_seq + 1)..(reagents_seq + Cardinality(Named(rows)))
              /\ \A id \in DOMAIN reagents : reagents'[id] = reagents[id]
              /\ Named(rows) # {} =>
                    session_state'[s].bulk_last_import = Some(Cardinality(Named(rows)))
              /\ \A k \in Named(rows) :
                    LET id == reagents_seq + Cardinality({j \in Named(rows) : j <= k})
                    IN  id \in DOMAIN reagents' =>
                           reagents'[id] =
                              Row(CellText(rows[k], "name")[1],
                                  CellText(rows[k], "cas_number"),
                                  CellText(rows[k], "supplier"),
                                  <<"Default Location">>, 100, "bottles", None, 100)
      ]_vars

(***************************************************************************)
(* SpecAuth: logging in and out of both applications, with right and wrong *)
(* credentials, around the pages an authenticated session can open.        *)
(***************************************************************************)
AuthCredentials ==
    Credentials \cup {<<"user", "admin123">>, <<"nobody", "admin123">>, <<"Admin", "admin123">>}

AuthNext ==
    \/ \E s \in Sessions :
          \/ \E cred \in AuthCredentials : FlaskInit /\ Login(s, cred[1], cred[2])
          \/ FlaskInit /\ Logout(s)
          \/ FlaskInit /\ RunStart(s)
          \/ FlaskInit /\ RunEnd(s)
          \/ /\ FlaskInit
             /\ reagents_seq < CatalogRows
             /\ AddReagent(s, Name1, <<>>, <<>>, Shelf, <<>>, 1, "g", None, 1)
    \/ \E c \in Clients :
          \/ \E cred \in AuthCredentials :
                StreamlitInit /\ FlaskLogin(c, cred[1], cred[2])
          \/ StreamlitInit /\ FlaskLogout(c)
          \/ StreamlitInit /\ FlaskIndex(c)
          \/ /\ StreamlitInit
             /\ reagent_seq < CatalogRows
             /\ FlaskAddReagent(c, Name1, <<>>, <<>>, Shelf, 1, "g", None, 1)

SpecAuth == Init /\ [][AuthNext]_vars

(***************************************************************************)
(* Authentication: the claim.                                              *)
(***************************************************************************)
\* The state of an anonymous dashboard session
IsAnonymous(state) ==
    ~state.authenticated /\ state.username = None /\ state.role = None

\* C11: a session is anonymous or carries a stored user and that user's role;
\* it becomes authenticated (or changes user) only by a login whose username
\* and password are exactly those of a stored user, and then carries that
\* user's role (admin / admin123: role admin); a login with a wrong password
\* or an unknown username leaves the session as it was, anonymous; a logout
\* leaves it anonymous.
C11_AuthStateMachine ==
    [][/\ \A s \in Sessions :
             LET before == session_state[s]
                 after == session_state'[s]
             IN  /\ \/ IsAnonymous(after)
                    \/ /\ after.authenticated
                       /\ \E u \in users : /\ after.username = Some(u.username)
                                           /\ after.role = Some(u.role)
                 /\ (after.authenticated /\ ~before.authenticated) =>
                       \E cred \in AuthCredentials :
                          /\ Login(s, cred[1], cred[2])
                          /\ \E u \in users : /\ u.username = cred[1]
                                              /\ u.password_hash = Sha256(cred[2])
                                              /\ after.username = Some(u.username)
                                              /\ after.role = Some(u.role)
                 /\ (before.authenticated /\ after.authenticated) => after = before
                 /\ \A cred \in AuthCredentials :
                       (/\ Login(s, cred[1], cred[2])
                        /\ ~\E u \in users : /\ u.username = cred[1]
                                             /\ u.password_hash = Sha256(cred[2]))
                          => IsAnonymous(after)
                 /\ Login(s, "admin", "admin123") => after.role = Some("admin")
                 /\ Logout(s) => IsAnonymous(after)
       /\ \A c \in Clients :
             /\ current_user'[c] # None => \E u \in user : current_user'[c] = Some(u.id)
             /\ (current_user'[c] # None /\ current_user'[c] # current_user[c]) =>
                   \E cred \in AuthCredentials :
                      /\ FlaskLogin(c, cred[1], cred[2])
                      /\ \E u \in user : /\ u.username = cred[1]
                                         /\ u.password = cred[2]
                                         /\ current_user'[c] = Some(u.id)
             /\ \A cred \in AuthCredentials :
                   (/\ FlaskLogin(c, cred[1], cred[2])
                    /\ ~\E u \in user : u.username = cred[1] /\ u.password = cred[2])
                      => current_user'[c] = current_user[c]
             /\ FlaskLogin(c, "admin", "admin123") =>
                   \E u \in user : /\ current_user'[c] = Some(u.id)
                                   /\ u.username = "admin" /\ u.role = "admin"
             /\ FlaskLogout(c) => current_user'[c] = None
      ]_vars

\* C11 happens: one session has logged in as admin and carries role admin,
\* another has just been refused and is anonymous.
C11_Witness ==
    /\ shown = "Invalid username or password"
    /\ \E s, t \in Sessions :
          /\ session_state[s].authenticated
          /\ session_state[s].username = Some("admin")
          /\ session_state[s].role = Some("admin")
          /\ IsAnonymous(session_state[t])

(***************************************************************************)
(* Pages behind the access checks: app.py view_reagent, get_qr and         *)
(* admin_dashboard (lines 133-148, 170-179), the dashboard's Admin tab     *)
(* (streamlit_app.py lines 505-514).                                       *)
(***************************************************************************)
\* current_user.role: the role of the user load_user() finds for the session
FlaskRole(c) == (CHOOSE u \in user : u.id = current_user[c][1]).role

\* GET /reagent/<id>
FlaskViewReagent(c, id) ==
    /\ loaded[c] = None
    /\ IF ~LoggedIn(c) THEN Respond(c, "redirect login")
       ELSE IF id \notin DOMAIN reagent THEN Respond(c, "404")
       ELSE Respond(c, "view.html")
    /\ UNCHANGED <<today, stvars, user, reagent, reagent_seq, usage_log, current_user,
                   loaded, flask_alerts>>

\* GET /qr/<id>: the route has no @login_required
FlaskGetQr(c, id) ==
    /\ loaded[c] = None
    /\ IF id \notin DOMAIN reagent THEN Respond(c, "404") ELSE Respond(c, "image/png")
    /\ UNCHANGED <<today, stvars, user, reagent, reagent_seq, usage_log, current_user,
                   loaded, flask_alerts>>

\* GET /admin
FlaskAdminDashboard(c) ==
    /\ loaded[c] = None
    /\ IF ~LoggedIn(c) THEN Respond(c, "redirect login")
       ELSE IF FlaskRole(c) # "admin" THEN Respond(c, "Admin only")
       ELSE Respond(c, "admin.html")
    /\ UNCHANGED <<today, stvars, user, reagent, reagent_seq, usage_log, current_user,
                   loaded, flask_alerts>>

\* with tab5: what the Admin tab of a script run shows
AdminTab(s) ==
    /\ pc[s] = "tabs"
    /\ shown' = IF session_state[s].role # Some("admin") THEN "Admin access only"
                ELSE "Admin Dashboard"
    /\ UNCHANGED <<today, users, reagents, reagents_seq, usage_logs, cache,
                   session_state, pc, reagents_df, current_reagents, alerts, flvars>>

(***************************************************************************)
(* SpecAccess: every page and button of both applications, tried by an     *)
(* anonymous visitor, a user and an administrator.                         *)
(***************************************************************************)
AccessNext ==
    \/ \E s \in OneSession :
          \/ \E cred \in Credentials : FlaskInit /\ Login(s, cred[1], cred[2])
          \/ FlaskInit /\ Logout(s)
          \/ FlaskInit /\ RunStart(s)
          \/ FlaskInit /\ RunEnd(s)
          \/ FlaskInit /\ AdminTab(s)
          \/ FlaskInit /\ LoadUsage(s)
          \/ /\ FlaskInit
             /\ reagents_seq < CatalogRows
             /\ AddReagent(s, Name1, <<>>, <<>>, Shelf, <<>>, 1, "g", None, 1)
          \/ /\ FlaskInit
             /\ reagents_seq < CatalogRows
             /\ ConfirmImport(s, <<[name |-> Some(Name1)]>>)
          \/ \E id \in 1..CatalogRows, exp \in Dates :
                FlaskInit /\ EditExpiration(s, id, exp)
          \/ \E id \in 1..CatalogRows : FlaskInit /\ ConfirmDelete(s, {id})
          \/ \E id \in 1..CatalogRows :
                /\ FlaskInit
                /\ Len(usage_logs) < MaxLogs
                /\ RecordUsage(s, id, 1, <<>>)
    \/ \E c \in OneClient :
          \/ \E cred \in Credentials : StreamlitInit /\ FlaskLogin(c, cred[1], cred[2])
          \/ StreamlitInit /\ FlaskLogout(c)
          \/ StreamlitInit /\ FlaskIndex(c)
          \/ StreamlitInit /\ FlaskAdminDashboard(c)
          \/ /\ StreamlitInit
             /\ reagent_seq < CatalogRows
             /\ FlaskAddReagent(c, Name1, <<>>, <<>>, Shelf, 1, "g", None, 1)
          \/ \E id \in 1..CatalogRows : StreamlitInit /\ FlaskViewReagent(c, id)
          \/ \E id \in 1..CatalogRows : StreamlitInit /\ FlaskGetQr(c, id)
          \/ \E id \in 1..CatalogRows : StreamlitInit /\ FlaskLogUsageRead(c, id)
          \/ /\ StreamlitInit
             /\ Len(usage_log) < MaxLogs
             /\ FlaskLogUsageCommit(c, 1, <<>>)

SpecAccess == Init /\ [][AccessNext]_vars

(***************************************************************************)
(* Access control: the claim.                                              *)
(***************************************************************************)
\* C12: an edit, a delete or the admin overview is carried out only for a
\* session whose role is admin; a list, a view, a QR lookup, an add, a bulk
\* import or a usage logging is carried out only for an authenticated session.
C12_AccessControl ==
    [][/\ \A s \in OneSession :
             /\ \A id \in 1..CatalogRows :
                   /\ (\E exp \in Dates : EditExpiration(s, id, exp)) =>
                         session_state[s].role = Some("admin")
                   /\ ConfirmDelete(s, {id}) => session_state[s].role = Some("admin")
                   /\ RecordUsage(s, id, 1, <<>>) => session_state[s].authenticated
             /\ (AdminTab(s) /\ shown' = "Admin Dashboard") =>
                   session_state[s].role = Some("admin")
             /\ (RunStart(s) \/ LoadUsage(s)) => session_state[s].authenticated
             /\ AddReagent(s, Name1, <<>>, <<>>, Shelf, <<>>, 1, "g", None, 1) =>
                   session_state[s].authenticated
             /\ ConfirmImport(s, <<[name |-> Some(Name1)]>>) =>
                   session_state[s].authenticated
       /\ \A c \in OneClient :
             /\ (FlaskAdminDashboard(c) /\ response' = "admin.html") =>
                   /\ current_user[c] # None
                   /\ \E u \in user : u.id = current_user[c][1] /\ u.role = "admin"
             /\ (FlaskIndex(c) /\ response' = "index.html") => current_user[c] # None
             /\ (/\ FlaskAddReagent(c, Name1, <<>>, <<>>, Shelf, 1, "g", None, 1)
                 /\ reagent' # reagent) => current_user[c] # None
             /\ (FlaskLogUsageCommit(c, 1, <<>>) /\ usage_log' # usage_log) =>
                   current_user[c] # None
             /\ \A id \in 1..CatalogRows :
                   /\ (FlaskViewReagent(c, id) /\ response' = "view.html") =>
                         current_user[c] # None
                   /\ (FlaskGetQr(c, id) /\ response' = "image/png") =>
                         current_user[c] # None
      ]_vars

(***************************************************************************)
(* SpecStale: an administrator's and a user's dashboard session side by    *)
(* side, each on the catalog its own script run loaded: the administrator  *)
(* adds and deletes reagents while the user logs usage.  Or a Flask client *)
(* that adds reagents and logs usage of any id.                            *)
(***************************************************************************)
StaffLogins == {<<1, "admin", "admin123">>, <<2, "user", "user123">>}
Staff == {login[1] : login \in StaffLogins}

StaleNext ==
    \/ \E login \in StaffLogins : FlaskInit /\ Login(login[1], login[2], login[3])
    \/ \E s \in Staff :
          \/ FlaskInit /\ RunStart(s)
          \/ FlaskInit /\ RunEnd(s)
          \/ FlaskInit /\ LoadUsage(s)
          \/ /\ FlaskInit
             /\ reagents_seq < CatalogRows
             /\ AddReagent(s, Name1, <<>>, <<>>, Shelf, <<>>, MaxQty, "g", None, 1)
          \/ \E id \in 1..CatalogRows : FlaskInit /\ ConfirmDelete(s, {id})
          \/ \E id \in 1..CatalogRows, q \in 1..MaxQty :
                /\ FlaskInit
                /\ Len(usage_logs) < MaxLogs
                /\ RecordUsage(s, id, q, <<>>)
    \/ \E c \in OneClient :
          \/ StreamlitInit /\ FlaskLogin(c, "user", "user123")
          \/ /\ StreamlitInit
             /\ reagent_seq < CatalogRows
             /\ FlaskAddReagent(c, Name1, <<>>, <<>>, Shelf, MaxQty, "g", None, 1)
          \/ \E id \in 1..(CatalogRows + 1) : StreamlitInit /\ FlaskLogUsageRead(c, id)
          \/ /\ StreamlitInit
             /\ Len(usage_log) < MaxLogs
             /\ FlaskLogUsageCommit(c, 1, <<>>)

SpecStale == Init /\ [][StaleNext]_vars

(***************************************************************************)
(* Usage of a reagent that is gone: the claim.                             *)
(***************************************************************************)
\* C13: a usage logged against a reagent id that is not in the table at the
\* moment of the deduction appends no usage-log row (and a row is appended
\* only together with a deduction from a reagent that is in the table).
C13_UsageOfMissingReagent ==
    [][/\ \A s \in Staff, id \in 1..CatalogRows, q \in 1..MaxQty :
             RecordUsage(s, id, q, <<>>) =>
                IF id \in DOMAIN reagents
                   THEN usage_logs' # usage_logs =>
                           reagents'[id].quantity = reagents[id].quantity - q
                   ELSE usage_logs' = usage_logs
       /\ \A c \in OneClient, id \in 1..(CatalogRows + 1) :
             (FlaskLogUsageRead(c, id) /\ LoggedIn(c) /\ id \notin DOMAIN reagent) =>
                /\ response' = "404"
                /\ loaded'[c] = None
       /\ \A c \in OneClient :
             FlaskLogUsageCommit(c, 1, <<>>) => Held(c) \in DOMAIN reagent
      ]_vars

(***************************************************************************)
(* Bulk import when an INSERT raises (streamlit_app.py lines 248, 265-303).*)
(* The loop runs inside the one try block of line 248: an exception of     *)
(* c.execute (sqlite3.Error: database is locked, disk I/O error, ...)      *)
(* leaves the loop for the handler of line 302; conn.commit() of line 291  *)
(* is not reached and the connection is dropped with its transaction open, *)
(* which rolls the transaction back.                                       *)
(***************************************************************************)
\* The sheet rows for which the loop reaches the INSERT
Inserted(rows) == {k \in DOMAIN rows : ImportedRow(rows[k]) # None}

\* The "Confirm Import All Valid Rows" button, the INSERT of sheet row k raising
ConfirmImportError(s, rows, k) ==
    /\ pc[s] = "tabs"
    /\ \A j \in DOMAIN rows : "name" \in DOMAIN rows[j]     \* line 262
    /\ k \in Inserted(rows)
    /\ Display(s, "Error reading Excel")
    /\ UNCHANGED <<today, users, reagents, reagents_seq, usage_logs, cache,
                   session_state, flvars>>

(***************************************************************************)
(* SpecImportError: imports of sheets of named and blank rows, with and    *)
(* without an INSERT that raises.                                          *)
(***************************************************************************)
TextCells == {Some(<<" ">>), Some(<<"H">>), Some(<<"K">>)}
TextSheets == UNION {[1..n -> [{"name"} -> TextCells]] : n \in 1..MaxImport}

ImportErrorNext ==
    \E s \in OneSession :
        \/ \E cred \in Credentials : Login(s, cred[1], cred[2])
        \/ Logout(s)
        \/ RunStart(s)
        \/ RunEnd(s)
        \/ \E rows \in TextSheets :
              /\ reagents_seq + Len(rows) <= MaxImport
              /\ ConfirmImport(s, rows)
        \/ \E rows \in TextSheets, k \in 1..MaxImport :
              /\ reagents_seq + Len(rows) <= MaxImport
              /\ ConfirmImportError(s, rows, k)

SpecImportError == Init /\ [][ImportErrorNext]_vars

(***************************************************************************)
(* Bulk import with a failing row: the claim.                              *)
(***************************************************************************)
\* C14: when the processing of one row of an import raises an error, only
\* that row is skipped: every other row with a name is added, and the count
\* reported is the number of rows added; an import in which no row fails
\* reports the number of rows it added.
C14_ImportRowsIndependent ==
    [][\A s \in OneSession, rows \in TextSheets :
          /\ \A k \in 1..MaxImport :
                ConfirmImportError(s, rows, k) =>
                   LET others == Named(rows) \ {k}
                   IN  /\ Cardinality(DOMAIN reagents' \ DOMAIN reagents) =
                             Cardinality(others)
                       /\ others # {} =>
                             session_state'[s].bulk_last_import =
                                Some(Cardinality(others))
          /\ (ConfirmImport(s, rows) /\ reagents' # reagents) =>
                session_state'[s].bulk_last_import =
                   Some(Cardinality(DOMAIN reagents' \ DOMAIN reagents))
      ]_vars

(***************************************************************************)
(* SpecEdit: two administrators' dashboard sessions side by side, each on  *)
(* the catalog its own script run loaded, adding, editing and deleting.    *)
(***************************************************************************)
\* The administrator opens the edit form of a reagent, which shows the
\* reagent's fields (lines 186-198), retypes name and location and saves.
EditText(s, id, e_name, e_location) ==
    /\ id \in DfIds(reagents_df[s])
    /\ LET shows == DfRowOf(reagents_df[s], id)
       IN  SaveChanges(s, id, e_name, <<>>, <<>>, e_location, shows.quantity,
                       shows.unit, shows.expiration_date, shows.low_stock_threshold)

EditNames == {<<>>, Name1, <<"H">>}
EditLocations == {<<>>, Shelf}

EditNext ==
    \E s \in Staff :
        \/ Login(s, "admin", "admin123")
        \/ RunStart(s)
        \/ RunEnd(s)
        \/ /\ reagents_seq < CatalogRows
           /\ AddReagent(s, Name1, <<>>, <<>>, Shelf, <<>>, MaxQty, "g", None, 1)
        \/ \E id \in 1..CatalogRows, e_name \in EditNames, e_location \in EditLocations :
              EditText(s, id, e_name, e_location)
        \/ \E id \in 1..CatalogRows : ConfirmDelete(s, {id})

SpecEdit == Init /\ [][EditNext]_vars

(***************************************************************************)
(* Editing: the claim.                                                     *)
(***************************************************************************)
\* C15: an edit that sets an empty name or an empty location, a negative
\* quantity or an unrecognized unit is refused and changes no reagent; an
\* edit of a reagent that is no longer in the table does not report success.
C15_EditValidates ==
    [][\A s \in Staff, id \in 1..CatalogRows, e_name \in EditNames,
          e_location \in EditLocations, e_quantity \in {0 - 1, MaxQty},
          e_unit \in FormUnits :
          SaveChanges(s, id, e_name, <<>>, <<>>, e_location, e_quantity, e_unit, None, 1)
             => /\ (\/ e_name = <<>>
                    \/ e_location = <<>>
                    \/ e_quantity < 0
                    \/ e_unit \notin UnitOptions)
                      => /\ reagents' = reagents
                         /\ shown' # "Reagent updated!"
                /\ id \notin DOMAIN reagents => shown' # "Reagent updated!"
      ]_vars

(***************************************************************************)
(* SpecLedger: an administrator's dashboard session that adds, imports,    *)
(* edits and deletes reagents and logs usage; or a Flask client that adds  *)
(* reagents and logs usage.                                                *)
(***************************************************************************)
LedgerNext ==
    \/ \E s \in OneSession :
          \/ FlaskInit /\ Login(s, "admin", "admin123")
          \/ FlaskInit /\ RunStart(s)
          \/ FlaskInit /\ RunEnd(s)
          \/ FlaskInit /\ LoadUsage(s)
          \/ /\ FlaskInit
             /\ reagents_seq < MaxRows
             /\ AddReagent(s, Name1, <<>>, <<>>, Shelf, <<>>, MaxQty, "g", None, 1)
          \/ /\ FlaskInit
             /\ reagents_seq < MaxRows
             /\ ConfirmImport(s, <<[name |-> Some(Name1)]>>)
          \/ \E id \in 1..MaxRows : FlaskInit /\ EditText(s, id, Name1, <<"Tom">>)
          \/ \E to_delete \in SUBSET (1..MaxRows) : FlaskInit /\ ConfirmDelete(s, to_delete)
          \/ \E id \in 1..MaxRows :
                /\ FlaskInit
                /\ Len(usage_logs) < MaxLogs
                /\ RecordUsage(s, id, 1, <<>>)
    \/ \E c \in OneClient :
          \/ StreamlitInit /\ FlaskLogin(c, "user", "user123")
          \/ /\ StreamlitInit
             /\ reagent_seq < MaxRows
             /\ FlaskAddReagent(c, Name1, <<>>, <<>>, Shelf, MaxQty, "g", None, 1)
          \/ \E id \in 1..MaxRows : StreamlitInit /\ FlaskLogUsageRead(c, id)
          \/ /\ StreamlitInit
             /\ Len(usage_log) < MaxLogs
             /\ FlaskLogUsageCommit(c, 1, <<>>)

SpecLedger == Init /\ [][LedgerNext]_vars

(***************************************************************************)
(* The usage ledger: the claim.                                            *)
(***************************************************************************)
\* C16: no step changes or removes a row of a usage table: the table after
\* the step begins with the table before it; a delete removes the selected
\* reagents and leaves every other reagent and every usage-log row, those of
\* the deleted reagents included, as they were.
C16_LedgerAppendOnly ==
    [][/\ Len(usage_logs') >= Len(usage_logs)
       /\ SubSeq(usage_logs', 1, Len(usage_logs)) = usage_logs
       /\ Len(usage_log') >= Len(usage_log)
       /\ SubSeq(usage_log', 1, Len(usage_log)) = usage_log
       /\ \A s \in OneSession, to_delete \in SUBSET (1..MaxRows) :
             ConfirmDelete(s, to_delete) =>
                /\ usage_logs' = usage_logs
                /\ DOMAIN reagents' = DOMAIN reagents \ to_delete
                /\ \A id \in DOMAIN reagents' : reagents'[id] = reagents[id]
      ]_vars

\* C16 happens: a reagent with a usage-log row has just been deleted, the row
\* is still in the table and another reagent is still in the catalog.
C16_Witness ==
    /\ shown = "Deleted reagent(s)!"
    /\ reagents # <<>>
    /\ \E k \in DOMAIN usage_logs : usage_logs[k].reagent_id \notin DOMAIN reagents

====
